---------------------------- MODULE Spec2Model ----------------------------
(***************************************************************************)
(* First-person locomotion and collision avoidance of the museum scene:    *)
(* the Controls component (key handlers, updateTargetVelocity, animate,    *)
(* checkCollision and the effect that wires them) together with the part   *)
(* of App that mirrors the held keys for the HUD.                          *)
(*                                                                         *)
(* Numbers are fixed point: lengths in 1/1000 of a world unit, times in    *)
(* milliseconds, velocities in 1/1000 unit per second, dimensionless       *)
(* factors in 1/Scale (unit vectors) or 1/ExpScale (exponentials).         *)
(* Every division truncates toward zero, so the negation of a vector is    *)
(* computed exactly and magnitudes never grow by rounding.                 *)
(*                                                                         *)
(* Vectors are <<x, z>> pairs.  The y component is left out: velocity.y    *)
(* and targetVelocity.y are always 0 (forward.y = right.y = 0, the probe   *)
(* rays are horizontal) and camera.position.y is never written by          *)
(* Controls; it is cameraY, which only Museum sets.                        *)
(***************************************************************************)
EXTENDS Integers, Sequences, FiniteSets, TLC

VARIABLES
    isInteracting,   \* App state isInteracting, the prop of every Controls
    moveSpeed,       \* leva setting 'Movement'.moveSpeed
    orientation,     \* camera.quaternion as <<yaw, pitch>> in degrees
    physKeys,        \* keys that are physically down (the keyboard)
    hudKeys,         \* App state activeKeys
    activeKeys,      \* activeKeys.current of each Controls instance
    velocity,        \* velocity.current of each Controls instance
    targetVelocity,  \* targetVelocity.current of each Controls instance
    elapsed,         \* performance.now() - lastTime.current, saturated at MaxDt
    position,        \* camera.position (x, z)
    wallColliders,   \* wallColliders.current of each Controls instance
    loops,           \* the animate loops alive, in requestAnimationFrame order
    queue,           \* callbacks of the current frame that have not run yet
    frames,          \* frames rendered so far
    effectRuns,      \* re-runs of the Controls effect so far
    last,            \* the last event and, for a tick, what animate did
    orbitControls,   \* leva setting orbitControls of Museum
    lastPosition,    \* lastPosition.current of Museum, <<x, y, z>>
    cameraY,         \* camera.position.y
    meshPosition     \* meshRef.current.position of each InteractiveObject

vars == <<isInteracting, moveSpeed, orientation, physKeys, hudKeys, activeKeys,
          velocity, targetVelocity, elapsed, position, wallColliders, loops,
          queue, frames, effectRuns, last, orbitControls, lastPosition,
          cameraY, meshPosition>>

\* the state that Museum and its InteractiveObjects own
museumVars == <<orbitControls, lastPosition, cameraY, meshPosition>>

-----------------------------------------------------------------------------
(* Bounds of the model *)

MaxFrames == 2
MaxEffectRuns == 1
MaxInputRenders == 2
MaxWalkFrames == 3
MaxDecayFrames == 46

-----------------------------------------------------------------------------
(* Fixed-point arithmetic *)

Scale == 10 * 100
ExpScale == 10 * 10000

Abs(a) == IF a < 0 THEN -a ELSE a
Max(a, b) == IF a >= b THEN a ELSE b
Min(a, b) == IF a <= b THEN a ELSE b

\* a / b truncated toward zero, the rounding of the fixed-point model
TDiv(a, b) == IF a >= 0 THEN a \div b ELSE -((-a) \div b)

RECURSIVE SqrtSearch(_, _, _)
SqrtSearch(n, lo, hi) ==
    IF lo >= hi THEN lo
    ELSE LET mid == (lo + hi) \div 2
         IN  IF mid * mid >= n THEN SqrtSearch(n, lo, mid)
             ELSE SqrtSearch(n, mid + 1, hi)

\* the least r with r * r >= n
CeilSqrt(n) == SqrtSearch(n, 0, 46340)

RECURSIVE ExpSeries(_, _, _, _)
ExpSeries(x, k, term, acc) ==
    IF term = 0 \/ k > 20 THEN acc
    ELSE LET next == TDiv(term * x, k * Scale)
         IN  ExpSeries(x, k + 1, -next, acc - next)

\* Math.exp(-x / Scale) in 1/ExpScale, by its power series (0 <= x <= 2 * Scale)
ExpNeg(x) == Max(0, ExpSeries(x, 1, ExpScale, ExpScale))

-----------------------------------------------------------------------------
(* THREE.Vector3 on the horizontal plane *)

Zero == <<0, 0>>
VAdd(a, b) == <<a[1] + b[1], a[2] + b[2]>>
VSub(a, b) == <<a[1] - b[1], a[2] - b[2]>>
VNeg(a) == <<-a[1], -a[2]>>
\* Vector3.multiplyScalar with the scalar s / den
VScale(a, s, den) == <<TDiv(a[1] * s, den), TDiv(a[2] * s, den)>>
LengthSq(a) == a[1] * a[1] + a[2] * a[2]
Length(a) == CeilSqrt(LengthSq(a))
\* Vector3.dot of a vector in 1/1000 and a unit vector in 1/Scale
Dot(a, n) == TDiv(a[1] * n[1] + a[2] * n[2], Scale)
\* Vector3.normalize: divideScalar(length() || 1); the result is in 1/Scale
Normalize(a) ==
    IF LengthSq(a) = 0 THEN Zero
    ELSE <<TDiv(a[1] * Scale, Length(a)), TDiv(a[2] * Scale, Length(a))>>
\* Vector3.lerp(t, alpha) with alpha = f / ExpScale
Lerp(v, t, f) == <<v[1] + TDiv((t[1] - v[1]) * f, ExpScale),
                   v[2] + TDiv((t[2] - v[2]) * f, ExpScale)>>
\* Vector3.projectOnPlane(n) for n in 1/Scale: v - n * (v . n) / (n . n)
ProjectOnPlane(v, n) ==
    IF LengthSq(n) = 0 THEN v
    ELSE LET d == Dot(v, n)
             nn == TDiv(LengthSq(n), Scale)
         IN  IF nn = 0 THEN v
             ELSE <<v[1] - TDiv(n[1] * d, nn), v[2] - TDiv(n[2] * d, nn)>>


-----------------------------------------------------------------------------
(* Settings and scene constants *)

MoveSpeedDefault == 2800     \* moveSpeed 2.8
Acceleration == 15           \* acceleration 15.0 per second
Deceleration == 8            \* deceleration 8.0 per second
CollisionDistance == 500     \* collisionDistance 0.5
WallSlideForce == 980        \* wallSlideForce 0.98, in 1/Scale
PushEpsilon == 50            \* the 0.05 of pushDistance
CommitEpsilonSq == 100       \* 0.0001 (unit/s)^2 in (1/1000 unit/s)^2
MaxDt == 100                 \* the 0.1 s clamp of deltaTime, in ms
PlayerY == 1700              \* camera.position.y set by Museum
NumControls == 2             \* <Controls> in Museum and <Controls> in App

Instances == 1..NumControls

\* the values of the moveSpeed slider the model moves between
MoveSpeeds == {MoveSpeedDefault, Scale}

\* frame intervals in ms: a short frame and one longer than the clamp
FrameGaps == {50, 250}

Keys == {"KeyW", "KeyS", "KeyA", "KeyD"}

\* camera orientations <<yaw, pitch>> in degrees
Orientations == {<<0, 0>>, <<90, 0>>, <<180, 60>>, <<45, 0>>}

SinMilli(deg) ==
    CASE deg = 0 -> 0 [] deg = 45 -> 707 [] deg = 60 -> 866
      [] deg = 90 -> 1000 [] deg = 180 -> 0 [] OTHER -> 0
CosMilli(deg) ==
    CASE deg = 0 -> 1000 [] deg = 45 -> 707 [] deg = 60 -> 500
      [] deg = 90 -> 0 [] deg = 180 -> -1000 [] OTHER -> 0

\* new Vector3(0, 0, -1).applyQuaternion(q); y = 0; normalize()
Forward(o) ==
    Normalize(<<TDiv(-SinMilli(o[1]) * CosMilli(o[2]), Scale),
                TDiv(-CosMilli(o[1]) * CosMilli(o[2]), Scale)>>)

\* new Vector3(-1, 0, 0).applyQuaternion(q); y = 0; normalize()
Right(o) == Normalize(<<-CosMilli(o[1]), SinMilli(o[1])>>)

\* createWallCollider(position, size): centre and full size of a box
Box(cx, cy, cz, sx, sy, sz) ==
    [cx |-> cx, cy |-> cy, cz |-> cz, sx |-> sx, sy |-> sy, sz |-> sz]

\* the walls array of the effect
Walls == <<
    Box(0, 2500, -10000, 10000, 5000, 200),
    Box(-10000, 2500, -5000, 200, 5000, 10000),
    Box(-10000, 2500, 5000, 200, 5000, 10000),
    Box(10000, 2500, -5000, 200, 5000, 10000),
    Box(10000, 2500, 5000, 200, 5000, 10000),
    Box(-4000, 2500, 0, 4000, 5000, 200),
    Box(4000, 2500, 0, 4000, 5000, 200),
    Box(-5000, 2500, -5000, 200, 5000, 5000),
    Box(-3000, 1000, 5000, 2500, 2000, 2500),
    Box(3000, 1000, 5000, 2500, 2000, 2500),
    Box(-3000, 1000, -5000, 2500, 2000, 2500),
    Box(3000, 1000, -5000, 2500, 2000, 2500),
    Box(7000, 1000, -5000, 2500, 2000, 4500) >>

MinX(b) == b.cx - b.sx \div 2
MaxX(b) == b.cx + b.sx \div 2
MinY(b) == b.cy - b.sy \div 2
MaxY(b) == b.cy + b.sy \div 2
MinZ(b) == b.cz - b.sz \div 2
MaxZ(b) == b.cz + b.sz \div 2

-----------------------------------------------------------------------------
(* updateTargetVelocity *)

\* forward.multiplyScalar(moveSpeed): scales the vector in place
MultiplyScalarSpeed(v, ms) == VScale(v, ms, Scale)

\* the clamp of the target to moveSpeed
ClampToSpeed(t, ms) ==
    IF LengthSq(t) > ms * ms THEN VScale(Normalize(t), ms, Scale) ELSE t

\* an updateTargetVelocity that aims forward whatever is held
UpdateTargetVelocityForward(keys, o, ms, interacting) ==
    IF interacting THEN Zero ELSE MultiplyScalarSpeed(Forward(o), ms)

\* the value updateTargetVelocity leaves in targetVelocity.current
UpdateTargetVelocity(keys, o, ms, interacting) ==
    IF interacting THEN Zero
    ELSE LET f0 == Forward(o)
             r0 == Right(o)
             f1 == IF "KeyW" \in keys THEN MultiplyScalarSpeed(f0, ms) ELSE f0
             t1 == IF "KeyW" \in keys THEN VAdd(Zero, f1) ELSE Zero
             f2 == IF "KeyS" \in keys THEN MultiplyScalarSpeed(f1, ms) ELSE f1
             t2 == IF "KeyS" \in keys THEN VSub(t1, f2) ELSE t1
             r1 == IF "KeyA" \in keys THEN MultiplyScalarSpeed(r0, ms) ELSE r0
             t3 == IF "KeyA" \in keys THEN VAdd(t2, r1) ELSE t2
             r2 == IF "KeyD" \in keys THEN MultiplyScalarSpeed(r1, ms) ELSE r1
             t4 == IF "KeyD" \in keys THEN VSub(t3, r2) ELSE t3
         IN  ClampToSpeed(t4, ms)

-----------------------------------------------------------------------------
(* checkCollision *)

\* the rays array: direction as integer steps and as the unit vector
Rays == <<
    [dir |-> <<1, 0>>,   unit |-> <<Scale, 0>>],
    [dir |-> <<-1, 0>>,  unit |-> <<-Scale, 0>>],
    [dir |-> <<0, 1>>,   unit |-> <<0, Scale>>],
    [dir |-> <<0, -1>>,  unit |-> <<0, -Scale>>],
    [dir |-> <<1, 1>>,   unit |-> <<707, 707>>],
    [dir |-> <<-1, 1>>,  unit |-> <<-707, 707>>],
    [dir |-> <<1, -1>>,  unit |-> <<707, -707>>],
    [dir |-> <<-1, -1>>, unit |-> <<-707, -707>> ] >>

\* farther than any hit in the scene
Far == 40 * Scale
NoHit == [hit |-> FALSE, t |-> Far, face |-> Zero]

\* entry and exit of the ray o + t * d through the slab [lo, hi] of one axis
SlabEnter(o, d, lo, hi) ==
    IF d > 0 THEN lo - o ELSE IF d < 0 THEN o - hi
    ELSE IF lo <= o /\ o <= hi THEN -Far ELSE Far
SlabExit(o, d, lo, hi) ==
    IF d > 0 THEN hi - o ELSE IF d < 0 THEN o - lo
    ELSE IF lo <= o /\ o <= hi THEN Far ELSE -Far

\* Raycaster against one box mesh (front faces only): the entry point of the
\* ray, if the origin is outside the box, and the outward normal of that face
\* ex, ez: where the ray enters the x and the z slab; exit: where it leaves
\* the box
BoxHit(d, b, ex, ez, exit) ==
    IF MinY(b) <= cameraY /\ cameraY <= MaxY(b)
       /\ Max(ex, ez) >= 0 /\ Max(ex, ez) <= exit /\ Max(ex, ez) < Far
    THEN [hit |-> TRUE, t |-> Max(ex, ez),
          face |-> IF ex >= ez THEN <<-d[1] * Scale, 0>>
                   ELSE <<0, -d[2] * Scale>>]
    ELSE NoHit

RayBox(p, d, b) ==
    BoxHit(d, b,
           SlabEnter(p[1], d[1], MinX(b), MaxX(b)),
           SlabEnter(p[2], d[2], MinZ(b), MaxZ(b)),
           Min(SlabExit(p[1], d[1], MinX(b), MaxX(b)),
               SlabExit(p[2], d[2], MinZ(b), MaxZ(b))))

\* A hit nearer than cd lies on a box that is within cd of p along both
\* axes; the rays are cast against these boxes only, the others cannot decide
\* intersects[0].distance < collisionDistance.
Near(p, b, cd) ==
    /\ MinX(b) - cd <= p[1] /\ p[1] <= MaxX(b) + cd
    /\ MinZ(b) - cd <= p[2] /\ p[2] <= MaxZ(b) + cd

NearBoxes(p, boxes, cd) == SelectSeq(boxes, LAMBDA b : Near(p, b, cd))

\* the order of intersects: ascending distance
Nearer(h, rest) == IF h.hit /\ h.t <= rest.t THEN h ELSE rest

RECURSIVE NearestHit(_, _, _, _)
\* intersectObjects(wallColliders.current)[0]: the nearest hit of one ray
NearestHit(p, d, boxes, i) ==
    IF i > Len(boxes) THEN NoHit
    ELSE Nearer(RayBox(p, d, boxes[i]), NearestHit(p, d, boxes, i + 1))

\* intersects[0].distance < collisionDistance; the distance along a diagonal
\* is t * sqrt(2)
Within(ray, t, cd) ==
    IF ray.dir[1] # 0 /\ ray.dir[2] # 0
    THEN t < cd /\ 2 * t * t < cd * cd
    ELSE t < cd

\* intersects.length > 0 && intersects[0].distance < collisionDistance
HitWithin(ray, h, cd) == h.hit /\ Within(ray, h.t, cd)

\* the test of one ray cast from p
RayBlocked(p, ray, boxes, cd) ==
    HitWithin(ray, NearestHit(p, ray.dir, boxes, 1), cd)

\* subVectors(newPosition, point).normalize(): against the ray, or zero when
\* the hit point is the origin itself
PushDirection(ray, t) == IF t = 0 THEN Zero ELSE VNeg(ray.unit)

\* collisionNormal.current.add(pushDirection) for a ray that is blocked
AddPush(ray, h, cd, rest) ==
    IF HitWithin(ray, h, cd) THEN VAdd(PushDirection(ray, h.t), rest) ELSE rest

RECURSIVE SumPush(_, _, _, _)
\* collisionNormal.current after the loop over the rays
SumPush(p, boxes, cd, i) ==
    IF i > Len(Rays) THEN Zero
    ELSE AddPush(Rays[i], NearestHit(p, Rays[i].dir, boxes, 1), cd,
                 SumPush(p, boxes, cd, i + 1))

\* outward normals of the collider faces the blocked rays hit
HitFaces(p, boxes, cd) ==
    { NearestHit(p, Rays[i].dir, boxes, 1).face :
        i \in { j \in 1..Len(Rays) : RayBlocked(p, Rays[j], boxes, cd) } }

\* hasCollision after the loop over the rays
HasCollision(p, boxes, cd) ==
    \E i \in 1..Len(Rays) :
       RayBlocked(p, Rays[i], NearBoxes(p, boxes, cd), cd)

\* a resolution that adds pushBack instead of subtracting it
ResolveVelocityAdded(v, n) ==
    IF Dot(v, n) < 0
    THEN VScale(VAdd(v, VScale(n, Dot(v, n), Scale)), WallSlideForce, Scale)
    ELSE v

\* the velocity after "if (dot < 0) { ... }"
\* pushBack = n * dot; velocity.sub(pushBack); parallelVelocity =
\* velocity.projectOnPlane(n); velocity = parallelVelocity * wallSlideForce
ResolveVelocity(v, n) ==
    IF Dot(v, n) < 0
    THEN VScale(ProjectOnPlane(VSub(v, VScale(n, Dot(v, n), Scale)), n),
                WallSlideForce, Scale)
    ELSE v

\* checkCollision(newPosition) with velocity.current = v: the result, the
\* velocity it leaves and the newPosition it leaves in the caller's vector
\* collisionNormal.current.normalize()
CollisionNormal(newPosition, boxes, cd) ==
    Normalize(SumPush(newPosition, NearBoxes(newPosition, boxes, cd), cd, 1))

\* the "if (hasCollision)" branch, n being the normalized collisionNormal
Resolved(newPosition, v, boxes, cd, n) ==
    [collided |-> TRUE, normal |-> n,
     velocity |-> ResolveVelocity(v, n),
     newPosition |-> VAdd(newPosition, VScale(n, cd - PushEpsilon, Scale)),
     faces |-> HitFaces(newPosition, NearBoxes(newPosition, boxes, cd), cd)]

CheckCollision(newPosition, v, boxes, cd) ==
    IF HasCollision(newPosition, boxes, cd)
    THEN Resolved(newPosition, v, boxes, cd,
                  CollisionNormal(newPosition, boxes, cd))
    ELSE [collided |-> FALSE, normal |-> Zero, velocity |-> v,
          newPosition |-> newPosition, faces |-> {}]


-----------------------------------------------------------------------------
(* animate *)

\* the last event: its type, its key and, for a callback, what animate did
NoTick == [type |-> "none", key |-> "", inst |-> 0, closure |-> FALSE,
           suspended |-> FALSE, dt |-> 0,
           keys |-> {}, target |-> Zero, velIn |-> Zero, velInt |-> Zero,
           velOut |-> Zero, probed |-> FALSE, collided |-> FALSE,
           normal |-> Zero, faces |-> {}, wrote |-> FALSE,
           posIn |-> Zero, proposed |-> Zero, posOut |-> Zero]

Event(type, key) == [NoTick EXCEPT !.type = type, !.key = key]

\* an integration that leaves the velocity alone when the target is zero
IntegrateNoDecay(v, target, dt) ==
    IF LengthSq(target) > 0
    THEN Lerp(v, target, ExpScale - ExpNeg(Acceleration * dt))
    ELSE v

\* the integration step: lerp toward a non-zero target, decay otherwise
Integrate(v, target, dt) ==
    IF LengthSq(target) > 0
    THEN Lerp(v, target, ExpScale - ExpNeg(Acceleration * dt))
    ELSE VScale(v, ExpNeg(Deceleration * dt), ExpScale)

\* whether animate proposes and probes a new position
Moves(v, interacting) == LengthSq(v) > CommitEpsilonSq /\ ~interacting

\* camera.position.clone().add(velocity.clone().multiplyScalar(deltaTime))
Propose(pos, v, dt) == VAdd(pos, VScale(v, dt, 1000))

\* a commit that does not look at the probe
CommitUnchecked(pos, proposed, collided) == proposed

\* if (!checkCollision(newPosition)) camera.position.copy(newPosition):
\* the proposed position is committed only when the probe reports nothing
Commit(pos, proposed, collided) == IF collided THEN pos ELSE proposed

\* One call of animate by instance c, in a loop whose closure captured
\* isInteracting = interacting.  w holds the refs and the camera it touches.
\* the "if (velocity.lengthSq() > 0.0001 && !isInteracting)" block of animate:
\* v1 is the integrated velocity, proposed the new position, probe what
\* checkCollision answers for it; v2 and pos2 are what the block leaves
MoveBlock(w, c, interacting, dt, v1, proposed, moves, probe, v2, pos2) ==
    [w EXCEPT
       !.elapsed = [w.elapsed EXCEPT ![c] = 0],
       !.velocity = [w.velocity EXCEPT ![c] = v2],
       !.position = pos2,
       !.tick = [type |-> "tick", key |-> "", inst |-> c,
                 closure |-> interacting,
                 suspended |-> w.suspended, dt |-> dt,
                 keys |-> w.keys[c], target |-> w.target[c],
                 velIn |-> w.velocity[c], velInt |-> v1, velOut |-> v2,
                 probed |-> moves,
                 collided |-> moves /\ probe.collided,
                 normal |-> IF moves THEN probe.normal ELSE Zero,
                 faces |-> IF moves THEN probe.faces ELSE {},
                 wrote |-> moves /\ ~probe.collided,
                 posIn |-> w.position, proposed |-> proposed,
                 posOut |-> pos2]]

\* animate after the integration
Probe(w, c, interacting, dt, v1, proposed, moves, probe) ==
    MoveBlock(w, c, interacting, dt, v1, proposed, moves, probe,
              IF moves THEN probe.velocity ELSE v1,
              IF moves THEN Commit(w.position, proposed, probe.collided)
              ELSE w.position)

\* animate with deltaTime = dt and the integrated velocity v1
Integrated(w, c, interacting, cd, dt, v1) ==
    Probe(w, c, interacting, dt, v1, Propose(w.position, v1, dt),
          Moves(v1, interacting),
          CheckCollision(Propose(w.position, v1, dt), v1, w.colliders[c], cd))

\* animate with deltaTime = dt
Timed(w, c, interacting, cd, dt) ==
    Integrated(w, c, interacting, cd, dt,
               Integrate(w.velocity[c], w.target[c], dt))

Animate(w, c, interacting, cd) ==
    Timed(w, c, interacting, cd, Min(w.elapsed[c], MaxDt))

\* the refs and the camera as one record
World ==
    [position |-> position, velocity |-> velocity, target |-> targetVelocity,
     elapsed |-> elapsed, colliders |-> wallColliders, keys |-> activeKeys,
     suspended |-> isInteracting, tick |-> NoTick]

-----------------------------------------------------------------------------
(* Key handlers of Controls and of App *)

\* a handleKeyDown that records the key whatever isInteracting is
ControlsKeyDownAlways(keys, k, interacting) == keys \cup {k}

\* handleKeyDown of Controls: the held set after the event
ControlsKeyDown(keys, k, interacting) ==
    IF ~interacting THEN keys \cup {k} ELSE keys

\* a handleKeyUp that is skipped while interacting
ControlsKeyUpGated(keys, k, interacting) ==
    IF ~interacting THEN keys \ {k} ELSE keys

\* handleKeyUp of Controls: the held set after the event
ControlsKeyUp(keys, k, interacting) == keys \ {k}

\* handleKeyDown of App: activeKeys after the event
AppKeyDown(keys, k, interacting) ==
    IF ~interacting THEN keys \cup {k} ELSE keys

\* handleKeyUp of App: activeKeys after the event
AppKeyUp(keys, k, interacting) == keys \ {k}

\* targetVelocity.current after handleKeyDown: updated only when the key is
\* recorded
TargetAfterKeyDown(old, keys, o, ms, interacting) ==
    IF ~interacting THEN UpdateTargetVelocity(keys, o, ms, interacting)
    ELSE old

\* A keydown event (a key going down, or the repeat of a key that is down)
\* reaches the listeners of App and of every Controls.  The listeners are
\* those of the latest effect run: their closures hold the current
\* isInteracting and moveSpeed.
KeyDown(k) ==
    /\ queue = <<>>
    /\ physKeys' = physKeys \cup {k}
    /\ hudKeys' = AppKeyDown(hudKeys, k, isInteracting)
    /\ activeKeys' = [c \in Instances |->
                        ControlsKeyDown(activeKeys[c], k, isInteracting)]
    /\ targetVelocity' = [c \in Instances |->
           TargetAfterKeyDown(targetVelocity[c], activeKeys'[c], orientation,
                              moveSpeed, isInteracting)]
    /\ last' = Event("keydown", k)
    /\ UNCHANGED <<isInteracting, moveSpeed, orientation, velocity, elapsed,
                   position, wallColliders, loops, queue, frames, effectRuns,
                   museumVars>>

\* A keyup event of a key that is down.
KeyUp(k) ==
    /\ queue = <<>>
    /\ k \in physKeys
    /\ physKeys' = physKeys \ {k}
    /\ hudKeys' = AppKeyUp(hudKeys, k, isInteracting)
    /\ activeKeys' = [c \in Instances |->
                        ControlsKeyUp(activeKeys[c], k, isInteracting)]
    /\ targetVelocity' = [c \in Instances |->
           UpdateTargetVelocity(activeKeys'[c], orientation, moveSpeed,
                                isInteracting)]
    /\ last' = Event("keyup", k)
    /\ UNCHANGED <<isInteracting, moveSpeed, orientation, velocity, elapsed,
                   position, wallColliders, loops, queue, frames, effectRuns,
                   museumVars>>

\* The mouse turns the camera (PointerLockControls, enabled = !isInteracting,
\* rendered when orbitControls is off).
Rotate(o) ==
    /\ queue = <<>>
    /\ ~isInteracting
    /\ ~orbitControls
    /\ o # orientation
    /\ orientation' = o
    /\ last' = Event("rotate", "")
    /\ UNCHANGED <<isInteracting, moveSpeed, physKeys, hudKeys, activeKeys,
                   velocity, targetVelocity, elapsed, position, wallColliders,
                   loops, queue, frames, effectRuns, museumVars>>

-----------------------------------------------------------------------------
(* Museum: the InteractiveObjects and the orbit camera *)

\* the InteractiveObjects of Museum, in the order they are rendered
ObjectOrder == <<7, 8, 9, 10, 11, 12, 13, 1, 2, 3, 4, 5>>

ObjectIds == { ObjectOrder[k] : k \in 1..Len(ObjectOrder) }

\* the position prop of each InteractiveObject, <<x, y, z>>
ObjectPosition(id) ==
    CASE id = 7 -> <<-10000, 2500, -5000>>
      [] id = 8 -> <<-10000, 2500, 5000>>
      [] id = 9 -> <<10000, 2500, -5000>>
      [] id = 10 -> <<10000, 2500, 5000>>
      [] id = 11 -> <<-4000, 0, 0>>
      [] id = 12 -> <<4000, 0, 0>>
      [] id = 13 -> <<-5000, 2500, -5000>>
      [] id = 1 -> <<-3000, 500, 5000>>
      [] id = 2 -> <<3000, 500, 5000>>
      [] id = 3 -> <<-3000, 500, -5000>>
      [] id = 4 -> <<3000, 500, -5000>>
      [] id = 5 -> <<7000, 500, -5000>>

\* the test of scene.children.find: an invisible box whose position is
\* within 0.1 of p on every axis (every invisible box is a collider)
Matches(b, p) ==
    /\ Abs(b.cx - p[1]) < Scale \div 10
    /\ Abs(b.cy - p[2]) < Scale \div 10
    /\ Abs(b.cz - p[3]) < Scale \div 10

RECURSIVE FindCollider(_, _, _, _, _)
\* scene.children.find(...): the first match among the colliders in the
\* scene, those of the instances insts in the order they were added;
\* <<0, 0>> when there is none
FindCollider(colliders, insts, p, i, j) ==
    IF i > Len(insts) THEN <<0, 0>>
    ELSE IF j > Len(colliders[insts[i]])
         THEN FindCollider(colliders, insts, p, i + 1, 1)
    ELSE IF Matches(colliders[insts[i]][j], p) THEN <<insts[i], j>>
    ELSE FindCollider(colliders, insts, p, i, j + 1)

\* collisionBox.position.copy(meshRef.current.position)
MoveCollider(colliders, at, to) ==
    IF at = <<0, 0>> THEN colliders
    ELSE [colliders EXCEPT ![at[1]][at[2]] =
             [@ EXCEPT !.cx = to[1], !.cy = to[2], !.cz = to[3]]]

\* the effect of one InteractiveObject
ObjectEffect(colliders, insts, id, mesh) ==
    MoveCollider(colliders,
                 FindCollider(colliders, insts, ObjectPosition(id), 1, 1),
                 mesh[id])

RECURSIVE ObjectEffects(_, _, _, _)
\* Museum rendered: the position prop of every InteractiveObject is a new
\* array, so the effect of each of them runs, from the k-th on
ObjectEffects(colliders, insts, mesh, k) ==
    IF k > Len(ObjectOrder) THEN colliders
    ELSE ObjectEffects(ObjectEffect(colliders, insts, ObjectOrder[k], mesh),
                       insts, mesh, k + 1)

\* camera.position.set(0, 10, 20) of the orbit camera
OrbitPosition == <<0, 10000, 20000>>

\* An InteractiveObject that is selected is dragged with its
\* TransformControls to its position prop + off: its effect runs, with the
\* colliders of both Controls in the scene.
Drag(id, off) ==
    /\ queue = <<>>
    /\ meshPosition' = [meshPosition EXCEPT ![id] =
           <<ObjectPosition(id)[1] + off[1], ObjectPosition(id)[2] + off[2],
             ObjectPosition(id)[3] + off[3]>>]
    /\ meshPosition' # meshPosition
    /\ wallColliders' = ObjectEffect(wallColliders, <<1, 2>>, id, meshPosition')
    /\ last' = Event("drag", "")
    /\ UNCHANGED <<isInteracting, moveSpeed, orientation, physKeys, hudKeys,
                   activeKeys, velocity, targetVelocity, elapsed, position,
                   loops, queue, frames, effectRuns, orbitControls,
                   lastPosition, cameraY>>

\* The orbitControls setting is switched: Museum renders, its effect moves
\* the camera, and the effects of the InteractiveObjects run.  The props
\* of Controls do not change, its effect does not run.  OrbitControls
\* itself keeps the camera where it finds it as long as the mouse is still.
SetOrbitControls(b) ==
    /\ queue = <<>>
    /\ b # orbitControls
    /\ orbitControls' = b
    /\ lastPosition' = IF b /\ lastPosition # <<0, 0, 0>>
                       THEN <<position[1], cameraY, position[2]>>
                       ELSE lastPosition
    /\ position' = IF b THEN <<OrbitPosition[1], OrbitPosition[3]>>
                   ELSE IF lastPosition # <<0, 0, 0>>
                        THEN <<lastPosition[1], lastPosition[3]>>
                   ELSE position
    /\ cameraY' = IF b THEN OrbitPosition[2]
                  ELSE IF lastPosition # <<0, 0, 0>> THEN lastPosition[2]
                  ELSE cameraY
    /\ wallColliders' = ObjectEffects(wallColliders, <<1, 2>>, meshPosition, 1)
    /\ last' = Event("orbit", "")
    /\ UNCHANGED <<isInteracting, moveSpeed, orientation, physKeys, hudKeys,
                   activeKeys, velocity, targetVelocity, elapsed, loops,
                   queue, frames, effectRuns, meshPosition>>

-----------------------------------------------------------------------------
(* The effect of Controls *)

\* the cleanup of the previous run: wallColliders.current = []
Cleanup(w, c) == [w EXCEPT !.colliders = [w.colliders EXCEPT ![c] = <<>>]]

\* the body of the effect: the walls are created and pushed, the listeners
\* added, and animate() is called once
Setup(w, c, interacting) ==
    Animate([w EXCEPT !.colliders =
                [w.colliders EXCEPT ![c] = w.colliders[c] \o Walls]],
            c, interacting, CollisionDistance)

\* A dependency of the effect changed: cleanup, then the body, for the
\* Controls of Museum and then the Controls of App
RunEffects(w, interacting) ==
    Setup(Cleanup(Setup(Cleanup(w, 1), 1, interacting), 2), 2, interacting)

\* the loops after the effect ran again: none is cancelled, one is added for
\* each instance
LoopsAfterEffect(ls, interacting) ==
    ls \o [c \in Instances |-> [inst |-> c, isInteracting |-> interacting]]

\* the render with new props or settings, and the effects it re-runs;
\* since is the time since the last frame.  A new isInteracting renders
\* Museum too: the effects of its InteractiveObjects run after the effect of
\* its Controls and before that of the Controls of App, with the new
\* colliders of the former in the scene.
Rerender(interacting, ms, since, maxRuns) ==
    /\ queue = <<>>
    /\ effectRuns < maxRuns
    /\ effectRuns' = effectRuns + 1
    /\ isInteracting' = interacting
    /\ moveSpeed' = ms
    /\ \E w \in { RunEffects(
                     [World EXCEPT
                        !.elapsed = [c \in Instances |->
                                        Min(elapsed[c] + since, MaxDt)],
                        !.suspended = interacting],
                     interacting) } :
          /\ velocity' = w.velocity
          /\ elapsed' = w.elapsed
          /\ position' = w.position
          /\ wallColliders' =
                IF interacting # isInteracting
                THEN ObjectEffects(w.colliders, <<1>>, meshPosition, 1)
                ELSE w.colliders
    /\ loops' = LoopsAfterEffect(loops, interacting)
    /\ last' = Event("render", "")
    /\ UNCHANGED <<orientation, physKeys, hudKeys, activeKeys,
                   targetVelocity, queue, frames, museumVars>>

\* onInteractionChange(b): an object is inspected, or the inspection ends
SetInteracting(b, since, maxRuns) ==
    /\ b # isInteracting
    /\ Rerender(b, moveSpeed, since, maxRuns)

\* the moveSpeed slider of the settings panel is moved
SetMoveSpeed(ms, since, maxRuns) ==
    /\ ms # moveSpeed
    /\ Rerender(isInteracting, ms, since, maxRuns)

-----------------------------------------------------------------------------
(* Frames *)

\* The browser starts a frame d ms after the last one: every callback that
\* requestAnimationFrame queued is due, in the order it was requested.
BeginFrame(d, maxFrames) ==
    /\ queue = <<>>
    /\ frames < maxFrames
    /\ frames' = frames + 1
    /\ elapsed' = [c \in Instances |-> Min(elapsed[c] + d, MaxDt)]
    /\ queue' = [i \in 1..Len(loops) |-> i]
    /\ last' = Event("frame", "")
    /\ UNCHANGED <<isInteracting, moveSpeed, orientation, physKeys, hudKeys,
                   activeKeys, velocity, targetVelocity, position,
                   wallColliders, loops, effectRuns, museumVars>>

\* A frame as BeginFrame starts it, in a session whose frames are not counted.
NextFrame(d) ==
    /\ queue = <<>>
    /\ elapsed' = [c \in Instances |-> Min(elapsed[c] + d, MaxDt)]
    /\ queue' = [i \in 1..Len(loops) |-> i]
    /\ last' = Event("frame", "")
    /\ UNCHANGED <<isInteracting, moveSpeed, orientation, physKeys, hudKeys,
                   activeKeys, velocity, targetVelocity, position,
                   wallColliders, loops, frames, effectRuns, museumVars>>

\* The next callback of the frame runs animate, which requests the next frame.
RunCallback ==
    /\ queue # <<>>
    /\ \E w \in { Animate(World, loops[Head(queue)].inst,
                           loops[Head(queue)].isInteracting,
                           CollisionDistance) } :
          /\ velocity' = w.velocity
          /\ elapsed' = w.elapsed
          /\ position' = w.position
          /\ last' = w.tick
    /\ queue' = Tail(queue)
    /\ UNCHANGED <<isInteracting, moveSpeed, orientation, physKeys, hudKeys,
                   activeKeys, targetVelocity, wallColliders, loops, frames,
                   effectRuns, museumVars>>

-----------------------------------------------------------------------------
(* The session: both Controls mounted, the camera where Museum puts it *)

StartPosition == <<0, 8000>>

\* the state with the viewpoint at p and velocity.current = v in both Controls
InitWith(p, v) ==
    /\ isInteracting = FALSE
    /\ moveSpeed = MoveSpeedDefault
    /\ orientation = <<0, 0>>
    /\ physKeys = {}
    /\ hudKeys = {}
    /\ activeKeys = [c \in Instances |-> {}]
    /\ velocity = [c \in Instances |-> v]
    /\ targetVelocity = [c \in Instances |-> Zero]
    /\ elapsed = [c \in Instances |-> 0]
    /\ position = p
    /\ wallColliders = [c \in Instances |-> Walls]
    /\ loops = [c \in Instances |-> [inst |-> c, isInteracting |-> FALSE]]
    /\ queue = <<>>
    /\ frames = 0
    /\ effectRuns = 0
    /\ last = NoTick
    /\ orbitControls = FALSE
    /\ lastPosition = <<p[1], PlayerY, p[2]>>
    /\ cameraY = PlayerY
    /\ meshPosition = [id \in ObjectIds |-> ObjectPosition(id)]

InitAt(p) == InitWith(p, Zero)

Init == InitAt(StartPosition)

\* keys and orientations the session draws its events from
SessionKeys == {"KeyW", "KeyD"}
SessionOrientations == {<<0, 0>>, <<90, 0>>}
\* time between the last frame and a render, in ms
EffectDelays == {16}

Next ==
    \/ \E k \in SessionKeys : KeyDown(k)
    \/ \E k \in SessionKeys : KeyUp(k)
    \/ \E o \in SessionOrientations : Rotate(o)
    \/ \E b \in BOOLEAN, since \in EffectDelays :
          SetInteracting(b, since, MaxEffectRuns)
    \/ \E ms \in MoveSpeeds, since \in EffectDelays :
          SetMoveSpeed(ms, since, MaxEffectRuns)
    \/ \E d \in FrameGaps : BeginFrame(d, MaxFrames)
    \/ RunCallback

Spec == Init /\ [][Next]_vars

\* The input side alone: every key and orientation, all events within one
\* frame interval (no frame is rendered, no time passes)
InputNext ==
    \/ \E k \in Keys : KeyDown(k)
    \/ \E k \in Keys : KeyUp(k)
    \/ \E o \in Orientations : Rotate(o)
    \/ \E b \in BOOLEAN : SetInteracting(b, 0, MaxInputRenders)
    \/ \E ms \in MoveSpeeds : SetMoveSpeed(ms, 0, MaxInputRenders)

InputSpec == Init /\ [][InputNext]_vars

-----------------------------------------------------------------------------
(* Walking: key events and frames only.  The walk starts where the scenario
   starts, at a point further down the same straight walk along x = 0 (on
   which no collider comes nearer than 1.75 to the viewpoint), or beside
   the stand at (3, 1, 5); from each of them no probe ray hits a collider
   within collisionDistance. *)

WalkStarts == {<<0, 6000>>, <<0, -8800>>, <<1000, 6620>>}
WalkKeys == {"KeyW", "KeyD"}
WalkGaps == {50, 250}

WalkInit == \E p \in WalkStarts : InitAt(p)

WalkNext ==
    \/ \E k \in WalkKeys : KeyDown(k)
    \/ \E k \in WalkKeys : KeyUp(k)
    \/ \E d \in WalkGaps : BeginFrame(d, MaxWalkFrames)
    \/ RunCallback

WalkSpec == WalkInit /\ [][WalkNext]_vars

-----------------------------------------------------------------------------
(* Coming to rest: no key is held and none is pressed, the viewpoint moves
   with a velocity that an earlier walk left, in the room or toward the wall
   at z = -10; frames follow each other *)

DecayStarts == {<<0, 8000>>, <<0, -9300>>}
\* velocities of magnitude moveSpeed or below
DecayVelocities == {<<0, -MoveSpeedDefault>>, <<1979, -1979>>, <<0, 600>>}
\* a frame of a 60 Hz display and one longer than the clamp
DecayGaps == {16, 250}

DecayInit == \E p \in DecayStarts, v \in DecayVelocities : InitWith(p, v)

DecayNext ==
    \/ \E d \in DecayGaps : BeginFrame(d, MaxDecayFrames)
    \/ RunCallback

DecaySpec == DecayInit /\ [][DecayNext]_vars

-----------------------------------------------------------------------------
(* Pushing against a wall: facing the wall at z = -10, Forward and Right go
   down within one frame interval and stay down; the browser keeps
   rendering frames *)

PushStarts == {<<0, -9000>>}
PushKeys == {"KeyW", "KeyD"}
PushGaps == {50, 250}

PushInit == \E p \in PushStarts : InitAt(p)

PushNext ==
    \/ \E k \in PushKeys \ physKeys : KeyDown(k)
    \/ \E d \in PushGaps : physKeys = PushKeys /\ NextFrame(d)
    \/ RunCallback

\* requestAnimationFrame: a frame is rendered again and again, and every
\* callback that is due in a frame runs (RunCallback is enabled exactly when
\* the queue is not empty, and it alone shortens the queue)
PushSpec ==
    /\ PushInit /\ [][PushNext]_vars
    /\ WF_vars(\E d \in PushGaps : physKeys = PushKeys /\ NextFrame(d))
    /\ []<>(queue = <<>>)

-----------------------------------------------------------------------------
(* The scene: the session with the orbit camera and the dragging of objects,
   Forward the only key *)

SceneKeys == {"KeyW"}
\* a wall section, whose position is that of a collider, and a stand
SceneObjects == {7, 2}
\* a drag of 1 along x
DragOffsets == {<<Scale, 0, 0>>}

SceneNext ==
    \/ \E k \in SceneKeys : KeyDown(k)
    \/ \E k \in SceneKeys : KeyUp(k)
    \/ \E b \in BOOLEAN : SetOrbitControls(b)
    \/ \E id \in SceneObjects, off \in DragOffsets : Drag(id, off)
    \/ \E b \in BOOLEAN, since \in EffectDelays :
          SetInteracting(b, since, MaxEffectRuns)
    \/ \E d \in FrameGaps : BeginFrame(d, MaxFrames)
    \/ RunCallback

SceneSpec == Init /\ [][SceneNext]_vars

-----------------------------------------------------------------------------
(* Claims *)

\* squared horizontal distance from p to the box b (0 inside the box)
GapSq(p, b) ==
    LET dx == Max(0, Max(MinX(b) - p[1], p[1] - MaxX(b)))
        dz == Max(0, Max(MinZ(b) - p[2], p[2] - MaxZ(b)))
    IN  dx * dx + dz * dz

\* the z below which the scenario's viewpoint must not pass: -9.4
ScenarioZ == MinZ(Walls[1]) + 2 * (Walls[1].sz \div 2) + CollisionDistance

\* comparisons of a dot product with 0 allow for the rounding of the unit
\* normal: 0.005 unit/s
DotSlack == Scale \div 200

\* C1 (as amended): under key events and frames, from a start with no probe
\* hit, no probe ray cast from the viewpoint position hits a collider within
\* collisionDistance, and the viewpoint's z is never below -9.4.
C1_NoProbeHitAtViewpoint ==
    /\ \A c \in Instances :
          ~HasCollision(position, wallColliders[c], CollisionDistance)
    /\ position[2] >= ScenarioZ

\* C1 witness: Forward is held facing the wall at z = -10 and the probe has
\* just refused a position nearer than collisionDistance to it.
C1_Witness ==
    /\ last.type = "tick" /\ last.collided
    /\ "KeyW" \in activeKeys[last.inst]
    /\ last.proposed[2] < ScenarioZ
    /\ position[2] >= ScenarioZ

\* C1 (original): the viewpoint position is outside every collider by at
\* least collisionDistance - epsilon, and its z is never below -9.4.
C1_Original ==
    /\ \A c \in Instances : \A i \in 1..Len(wallColliders[c]) :
          GapSq(position, wallColliders[c][i]) >=
             (CollisionDistance - PushEpsilon) * (CollisionDistance - PushEpsilon)
    /\ position[2] >= ScenarioZ

\* C2: after a key event recomputed the target with only mutually opposing
\* keys held, the target velocity is the zero vector; and Back alone gives
\* the negation of Forward alone, Right alone the negation of Left alone.
C2_OpposingKeysCancel ==
    /\ \A c \in Instances :
          ( /\ last.type \in {"keydown", "keyup"}
            /\ ~isInteracting
            /\ activeKeys[c] \in {{"KeyW", "KeyS"}, {"KeyA", "KeyD"},
                                  {"KeyW", "KeyS", "KeyA", "KeyD"}} )
          => targetVelocity[c] = Zero
    /\ UpdateTargetVelocity({"KeyS"}, orientation, moveSpeed, FALSE)
         = VNeg(UpdateTargetVelocity({"KeyW"}, orientation, moveSpeed, FALSE))
    /\ UpdateTargetVelocity({"KeyD"}, orientation, moveSpeed, FALSE)
         = VNeg(UpdateTargetVelocity({"KeyA"}, orientation, moveSpeed, FALSE))

\* C3: a callback that runs while isInteracting is true leaves the viewpoint
\* position as it was, whichever loop it belongs to.
C3_NoMoveWhileSuspended ==
    (last.type = "tick" /\ last.suspended) => last.posOut = last.posIn

\* C4 (as amended): when the probe reports a collision and the velocity
\* points against the aggregate push-out normal, the resolved velocity does
\* not point against that normal and is not larger than before.
C4_ResolvedAgainstProbeNormal ==
    (last.collided /\ Dot(last.velInt, last.normal) < 0)
    => /\ Dot(last.velOut, last.normal) >= -DotSlack
       /\ LengthSq(last.velOut) <= LengthSq(last.velInt)

\* C4 witness: a collision was resolved, the velocity pointed into the
\* obstacle and was changed.
C4_Witness ==
    /\ last.collided
    /\ Dot(last.velInt, last.normal) < -DotSlack
    /\ last.velOut # last.velInt

\* C4 (original): as C4, and the resolved velocity does not point against
\* the outward normal of any collider face the probe hit.
C4_Original ==
    (last.collided /\ Dot(last.velInt, last.normal) < 0)
    => /\ Dot(last.velOut, last.normal) >= -DotSlack
       /\ \A f \in last.faces : Dot(last.velOut, f) >= -DotSlack
       /\ LengthSq(last.velOut) <= LengthSq(last.velInt)

\* C5: with no render since the mount, every callback integrates toward
\* the target of the held keys and the orientation the camera has at that
\* tick.
C5_TickUsesCurrentOrientation ==
    (last.type = "tick" /\ effectRuns = 0)
    => last.target =
          UpdateTargetVelocity(last.keys, orientation, moveSpeed, FALSE)

\* C6: the magnitudes of velocity and targetVelocity never exceed the
\* moveSpeed that is set.
C6_SpeedBound ==
    \A c \in Instances :
       /\ LengthSq(velocity[c]) <= moveSpeed * moveSpeed
       /\ LengthSq(targetVelocity[c]) <= moveSpeed * moveSpeed

\* C7: the step that makes isInteracting true leaves every held-key set
\* empty.
C7_SuspendClearsKeys ==
    [][ (~isInteracting /\ isInteracting')
        => (\A c \in Instances : activeKeys'[c] = {}) ]_vars

\* C8: while isInteracting is true no step, up to and including the resume,
\* adds a key to the held set of a Controls or of the HUD, and a key going
\* down leaves the held sets and the target velocity as they were.
C8_NoKeyRecordedWhileSuspended ==
    [][ isInteracting
        => /\ \A c \in Instances : activeKeys'[c] \subseteq activeKeys[c]
           /\ hudKeys' \subseteq hudKeys
           /\ (physKeys' # physKeys /\ physKeys \subseteq physKeys')
              => /\ activeKeys' = activeKeys
                 /\ hudKeys' = hudKeys
                 /\ targetVelocity' = targetVelocity ]_vars

\* C8 witness: a key went down during the suspension that is still on: it
\* is down and in no held set.
C8_Witness ==
    /\ isInteracting
    /\ last.type = "keydown"
    /\ last.key \in physKeys
    /\ \A c \in Instances : last.key \notin activeKeys[c]
    /\ last.key \notin hudKeys

\* C9: every key in a held set, of a Controls or of the HUD, is physically
\* down.
C9_HeldKeysAreDown ==
    /\ \A c \in Instances : activeKeys[c] \subseteq physKeys
    /\ hudKeys \subseteq physKeys

\* C9 witness: a key that was held went up during a suspension and is in
\* no held set any more, while another key is still held.
C9_Witness ==
    /\ isInteracting
    /\ last.type = "keyup"
    /\ last.key \notin physKeys
    /\ \A c \in Instances : last.key \notin activeKeys[c] /\ activeKeys[c] # {}
    /\ last.key \notin hudKeys

\* C10: every callback that runs while isInteracting is true has a zero
\* target, and with dt > 0 it makes a non-zero velocity strictly smaller.
C10_SuspendedTicksDecay ==
    (last.type = "tick" /\ last.suspended)
    => /\ last.target = Zero
       /\ (last.dt > 0 /\ last.velIn # Zero)
          => LengthSq(last.velOut) < LengthSq(last.velIn)

\* C11: while the orbit camera is on, no step adds a key to a held set and
\* no step changes the viewpoint position.
C11_OrbitSuspends ==
    [][ (orbitControls /\ orbitControls')
        => /\ \A c \in Instances : activeKeys'[c] \subseteq activeKeys[c]
           /\ position' = position ]_vars

\* C12: within a frame a tick is the only tick: the step after a callback
\* of the frame is never another callback of the same frame (a new frame
\* starts with a step of its own).
C12_OneTickPerFrame ==
    [][ last.type = "tick" => last'.type # "tick" ]_vars

\* C13: the colliders of every Controls are the boxes that the set-up
\* registered, each where it was put.
C13_CollidersFixed ==
    \A c \in Instances : wallColliders[c] = Walls

RECURSIVE TicksToRest(_, _, _)
\* the number of ticks of dt ms after which a velocity v that is multiplied
\* by exp(-deceleration * dt) in each of them is at the commit epsilon or
\* below
TicksToRest(v, dt, n) ==
    IF LengthSq(v) <= CommitEpsilonSq THEN n
    ELSE TicksToRest(VScale(v, ExpNeg(Deceleration * dt), ExpScale), dt, n + 1)

\* the bound of C14: the ticks that the shortest frame needs from moveSpeed
DecayTicks == TicksToRest(<<MoveSpeedDefault, 0>>, 16, 0)

\* C14: with no key held, no tick makes the velocity larger; after
\* DecayTicks frames, each of which ticks every Controls with dt > 0, every
\* velocity is at the commit epsilon or below; and a tick that starts at
\* the epsilon or below leaves the viewpoint position as it is.
C14_DecaysToRest ==
    /\ (last.type = "tick" /\ last.keys = {})
       => LengthSq(last.velOut) <= LengthSq(last.velIn)
    /\ (frames >= DecayTicks /\ queue = <<>>)
       => \A c \in Instances : LengthSq(velocity[c]) <= CommitEpsilonSq
    /\ (last.type = "tick" /\ last.keys = {}
        /\ LengthSq(last.velIn) <= CommitEpsilonSq)
       => last.posOut = last.posIn

\* C14 witness: with no key held and nothing in the way, the tick of a
\* short frame brings a velocity, which moved the viewpoint in the frames
\* before, from above the commit epsilon to it or below.
C14_Witness ==
    /\ last.type = "tick" /\ last.keys = {} /\ last.dt = 16
    /\ ~last.collided
    /\ LengthSq(last.velIn) > CommitEpsilonSq
    /\ LengthSq(last.velOut) <= CommitEpsilonSq
    /\ frames > 7
    /\ position \notin DecayStarts

\* C15: a tick whose probe reported a collision leaves the viewpoint at the
\* proposed position displaced along the aggregate normal by
\* collisionDistance - 0.05.
C15_PushedOutCommitted ==
    (last.type = "tick" /\ last.collided)
    => last.posOut = VAdd(last.proposed,
                          VScale(last.normal, CollisionDistance - PushEpsilon,
                                 Scale))

\* Forward and Right are held in every Controls: facing -z, the target has a
\* component into the wall at z = -10 and one along it, toward +x
PushKeysHeld == \A c \in Instances : activeKeys[c] = {"KeyW", "KeyD"}

\* the viewpoint is in front of the flat part of the wall at z = -10,
\* farther than collisionDistance from both of its ends
InFrontOfWall ==
    /\ position[2] > MaxZ(Walls[1])
    /\ position[1] > MinX(Walls[1]) + CollisionDistance
    /\ position[1] < MaxX(Walls[1]) - CollisionDistance

\* C16: if from some state on Forward and Right stay held and the viewpoint
\* stays in front of the flat wall, then again and again a step advances
\* the viewpoint along the wall.
C16_SlidesAlongWall ==
    <>[](PushKeysHeld /\ InFrontOfWall /\ ~isInteracting)
    => []<><<position'[1] > position[1]>>_vars

\* C17: in every reachable state, for each Controls instance, an empty held
\* set implies that targetVelocity is the zero vector; so a tick with no key
\* held finds a zero target and takes the decay branch: the velocity it
\* integrates is the old one times exp(-deceleration * deltaTime).
C17_NoKeysZeroTarget ==
    /\ \A c \in Instances : activeKeys[c] = {} => targetVelocity[c] = Zero
    /\ (last.type = "tick" /\ last.keys = {}) =>
          /\ last.target = Zero
          /\ last.velInt =
                VScale(last.velIn, ExpNeg(Deceleration * last.dt), ExpScale)

\* a key was held and released, and a tick of a running loop finds the held
\* set empty while the viewpoint still moves
C17_Witness ==
    /\ last.type = "tick" /\ last.keys = {} /\ ~last.closure
    /\ LengthSq(last.velIn) > CommitEpsilonSq
    /\ \A c \in Instances : activeKeys[c] = {} /\ targetVelocity[c] = Zero

=============================================================================
